---- MODULE Spec2Model ----
(***************************************************************************)
(* Model of src/rand.rs (regd-testing): the five random value generators   *)
(* generate, generate_range, generate_bytes, generate_alphanumeric and     *)
(* generate_badfile, called by concurrent callers, and the current working *)
(* directory that generate_badfile queries with fs::metadata while other   *)
(* processes create and remove entries in it.                              *)
(*                                                                         *)
(* The random source (rand::rng()) is modelled as a nondeterministic       *)
(* choice over the values it can produce.  Characters are modelled by      *)
(* their code points, names and buffers by sequences.                      *)
(***************************************************************************)
EXTENDS Integers, Sequences, FiniteSets, TLC

(***************************************************************************)
(* Bounds of the model.                                                    *)
(***************************************************************************)
\* largest `length` passed to generate_bytes / generate_alphanumeric
MaxLen == 2
\* number of symbols of the alphanumeric charset the random source draws
NumSyms == 2
\* largest bound of a range passed to generate_range, largest value of T
MaxVal == 2

\* The `length`s passed to generate_badfile.  With one-character names the
\* directory can hold every name of the length, which is the case the retry
\* loop is about.
BadfileLengths == {0, 1}

Callers == {"c1", "c2"}

(***************************************************************************)
(* rand::distr::Alphanumeric, char::from                                   *)
(***************************************************************************)
\* The charset Alphanumeric indexes: "A".."Z", "a".."z", "0".."9" as bytes.
CharsetOffByOne ==
    [i \in 1..62 |->
        IF i <= 26 THEN 65 + i
        ELSE IF i <= 52 THEN 96 + (i - 26)
        ELSE 47 + (i - 52)]

Charset ==
    [i \in 1..62 |->
        IF i <= 26 THEN 64 + i
        ELSE IF i <= 52 THEN 96 + (i - 26)
        ELSE 47 + (i - 52)]

\* The indexes into the charset that the modelled random source produces
\* (0 and 25 are the ends of the upper case run, 50 is a lower case letter).
SampledIdx == {(i * 25) % 62 : i \in 0..(NumSyms - 1)}

\* char::from(u8): the character whose code point is the byte.
CharFrom(b) == b

\* One draw of the Alphanumeric distribution, mapped with char::from.
AlphanumericChars == {CharFrom(Charset[i + 1]) : i \in SampledIdx}

\* rng.sample_iter(&Alphanumeric).take(length).map(char::from).collect()
SampleIter(len) == [1..len -> AlphanumericChars]

\* The bytes the modelled random source produces for rng.random::<u8>().
SampledBytes == {0, 255}

RandomBytesInclusive(len) == [1..(len + 1) -> SampledBytes]

\* (0..length).map(|_| rng.random::<u8>()).collect()
RandomBytes(len) == [1..len -> SampledBytes]

\* The values of the scalar type T of generate::<T>() and generate_range.
TValues == 0..MaxVal

(***************************************************************************)
(* Ranges: a..b (kind "exclusive") and a..=b (kind "inclusive")            *)
(***************************************************************************)
Ranges == [kind : {"exclusive", "inclusive"}, start : TValues, end : TValues]

NoRange == [kind |-> "none", start |-> 0, end |-> 0]

IsEmptyStrict(rg) == ~(rg.start < rg.end)

\* SampleRange::is_empty: !(start < end) for a..b, !(start <= end) for a..=b
IsEmpty(rg) ==
    IF rg.kind = "exclusive"
    THEN ~(rg.start < rg.end)
    ELSE ~(rg.start <= rg.end)

RandomRangeClosed(rg) == {v \in TValues : rg.start <= v /\ v <= rg.end}

\* rng.random_range(range): the values a draw from a non-empty range can give
RandomRange(rg) ==
    IF rg.kind = "exclusive"
    THEN {v \in TValues : rg.start <= v /\ v < rg.end}
    ELSE {v \in TValues : rg.start <= v /\ v <= rg.end}

(***************************************************************************)
(* The current working directory                                           *)
(***************************************************************************)
\* The names generate_badfile can ask about.
Names == UNION {SampleIter(n) : n \in BadfileLengths \ {0}}

\* What a name can be in the directory.
EntryKinds == {"file", "directory", "symlink", "dangling_symlink", "unreadable"}

Absent == "absent"

\* An entry with that exact name exists in the directory.
EntryExists(dir, name) == dir[name] # Absent

\* fs::metadata(&filename).is_err(): metadata follows symbolic links, so it
\* fails when there is no entry, when the entry is a symbolic link whose
\* target is missing, and when the metadata cannot be read.
MetadataIsErr(dir, name) ==
    dir[name] \in {Absent, "dangling_symlink", "unreadable"}

(***************************************************************************)
(* State                                                                   *)
(***************************************************************************)
VARIABLES
    cwd,        \* the directory: name -> kind of entry, or Absent
    pc,         \* per caller: "idle", "sample", "check", "returned", "aborted"
    op,         \* per caller: the function being (or last) called
    length,     \* per caller: the `length` argument
    range,      \* per caller: the `range` argument
    filename,   \* per caller: generate_badfile's candidate
    value,      \* per caller: the scalar returned
    buffer,     \* per caller: the Vec<u8> or String returned
    drew,       \* per caller: the call has drawn from the random source
    queried,    \* per caller: the call has called fs::metadata
    discarded,  \* per caller: the call has discarded a candidate
    raced       \* per caller: when the call returned its name, another call
                \*             held the same name as its unchecked candidate

callerVars == <<pc, op, length, range, filename, value, buffer,
                drew, queried, discarded, raced>>

vars == <<cwd, pc, op, length, range, filename, value, buffer,
          drew, queried, discarded, raced>>

\* A caller that is not inside a call may make one.
CanCall(t) == pc[t] \in {"idle", "returned", "aborted"}

\* The state of caller t at the start of a call of function f.
Enter(t, f, len, rg) ==
    /\ op' = [op EXCEPT ![t] = f]
    /\ length' = [length EXCEPT ![t] = len]
    /\ range' = [range EXCEPT ![t] = rg]
    /\ filename' = [filename EXCEPT ![t] = <<>>]
    /\ queried' = [queried EXCEPT ![t] = FALSE]
    /\ discarded' = [discarded EXCEPT ![t] = FALSE]
    /\ raced' = [raced EXCEPT ![t] = FALSE]

Init ==
    /\ cwd \in [Names -> EntryKinds \cup {Absent}]
    /\ pc = [t \in Callers |-> "idle"]
    /\ op = [t \in Callers |-> "none"]
    /\ length = [t \in Callers |-> 0]
    /\ range = [t \in Callers |-> NoRange]
    /\ filename = [t \in Callers |-> <<>>]
    /\ value = [t \in Callers |-> 0]
    /\ buffer = [t \in Callers |-> <<>>]
    /\ drew = [t \in Callers |-> FALSE]
    /\ queried = [t \in Callers |-> FALSE]
    /\ discarded = [t \in Callers |-> FALSE]
    /\ raced = [t \in Callers |-> FALSE]

(***************************************************************************)
(* The five functions                                                      *)
(***************************************************************************)
\* generate::<T>()
Generate(t) ==
    /\ CanCall(t)
    /\ Enter(t, "generate", 0, NoRange)
    /\ \E v \in TValues : value' = [value EXCEPT ![t] = v]
    /\ buffer' = [buffer EXCEPT ![t] = <<>>]
    /\ drew' = [drew EXCEPT ![t] = TRUE]
    /\ pc' = [pc EXCEPT ![t] = "returned"]
    /\ UNCHANGED cwd

\* generate_range(range)
GenerateRange(t, rg) ==
    /\ CanCall(t)
    /\ Enter(t, "generate_range", 0, rg)
    /\ buffer' = [buffer EXCEPT ![t] = <<>>]
    /\ IF IsEmpty(rg)
       THEN /\ pc' = [pc EXCEPT ![t] = "aborted"]
            /\ value' = [value EXCEPT ![t] = 0]
            /\ drew' = [drew EXCEPT ![t] = FALSE]
       ELSE /\ \E v \in RandomRange(rg) : value' = [value EXCEPT ![t] = v]
            /\ drew' = [drew EXCEPT ![t] = TRUE]
            /\ pc' = [pc EXCEPT ![t] = "returned"]
    /\ UNCHANGED cwd

\* generate_bytes(length)
GenerateBytes(t, len) ==
    /\ CanCall(t)
    /\ Enter(t, "generate_bytes", len, NoRange)
    /\ \E b \in RandomBytes(len) : buffer' = [buffer EXCEPT ![t] = b]
    /\ value' = [value EXCEPT ![t] = 0]
    /\ drew' = [drew EXCEPT ![t] = len > 0]
    /\ pc' = [pc EXCEPT ![t] = "returned"]
    /\ UNCHANGED cwd

\* generate_alphanumeric(length)
GenerateAlphanumeric(t, len) ==
    /\ CanCall(t)
    /\ Enter(t, "generate_alphanumeric", len, NoRange)
    /\ \E s \in SampleIter(len) : buffer' = [buffer EXCEPT ![t] = s]
    /\ value' = [value EXCEPT ![t] = 0]
    /\ drew' = [drew EXCEPT ![t] = len > 0]
    /\ pc' = [pc EXCEPT ![t] = "returned"]
    /\ UNCHANGED cwd

LengthNotNegative(len) == len >= 0

\* assert!(length > 0, "cannot sample empty file name")
LengthOk(len) == len > 0

\* generate_badfile(length): the assertion, then into the loop
GenerateBadfile(t, len) ==
    /\ CanCall(t)
    /\ Enter(t, "generate_badfile", len, NoRange)
    /\ value' = [value EXCEPT ![t] = 0]
    /\ buffer' = [buffer EXCEPT ![t] = <<>>]
    /\ drew' = [drew EXCEPT ![t] = FALSE]
    /\ pc' = [pc EXCEPT ![t] = IF LengthOk(len) THEN "sample" ELSE "aborted"]
    /\ UNCHANGED cwd

\* the loop body up to the candidate: a fresh rng, one candidate `name`
BadfileDraw(t, name) ==
    /\ pc[t] = "sample"
    /\ name \in SampleIter(length[t])
    /\ filename' = [filename EXCEPT ![t] = name]
    /\ drew' = [drew EXCEPT ![t] = TRUE]
    /\ pc' = [pc EXCEPT ![t] = "check"]
    /\ UNCHANGED <<cwd, op, length, range, value, buffer,
                   queried, discarded, raced>>

BadfileSample(t) ==
    \E name \in SampleIter(length[t]) : BadfileDraw(t, name)

\* Another call holds `name` as its candidate and has not checked it yet.
HeldByAnother(t, name) ==
    \E u \in Callers \ {t} : pc[u] = "check" /\ filename[u] = name

\* The end of the call of caller t that returns `name`.
Return(t, name) ==
    /\ buffer' = [buffer EXCEPT ![t] = name]
    /\ raced' = [raced EXCEPT ![t] = HeldByAnother(t, name)]
    /\ pc' = [pc EXCEPT ![t] = "returned"]
    /\ UNCHANGED discarded

\* The candidate of caller t is dropped and the loop goes round again.
Retry(t) ==
    /\ discarded' = [discarded EXCEPT ![t] = TRUE]
    /\ pc' = [pc EXCEPT ![t] = "sample"]
    /\ UNCHANGED <<buffer, raced>>

\* A check that ignores what fs::metadata answered.
BadfileCheckIgnoring(t) ==
    /\ pc[t] = "check"
    /\ queried' = [queried EXCEPT ![t] = TRUE]
    /\ Return(t, filename[t])
    /\ filename' = [filename EXCEPT ![t] = <<>>]
    /\ UNCHANGED <<cwd, op, length, range, value, drew>>

\* A check that returns the names that exist.
BadfileCheckInverted(t) ==
    /\ pc[t] = "check"
    /\ queried' = [queried EXCEPT ![t] = TRUE]
    /\ IF ~MetadataIsErr(cwd, filename[t]) THEN Return(t, filename[t]) ELSE Retry(t)
    /\ filename' = [filename EXCEPT ![t] = <<>>]
    /\ UNCHANGED <<cwd, op, length, range, value, drew>>

\* A check that creates the file it returns.
BadfileCheckReserving(t) ==
    /\ pc[t] = "check"
    /\ queried' = [queried EXCEPT ![t] = TRUE]
    /\ IF MetadataIsErr(cwd, filename[t])
       THEN /\ Return(t, filename[t])
            /\ cwd' = [cwd EXCEPT ![filename[t]] = "file"]
       ELSE /\ Retry(t)
            /\ UNCHANGED cwd
    /\ filename' = [filename EXCEPT ![t] = <<>>]
    /\ UNCHANGED <<op, length, range, value, drew>>

\* A check that removes the entry a candidate collides with.
BadfileCheckRemoving(t) ==
    /\ pc[t] = "check"
    /\ queried' = [queried EXCEPT ![t] = TRUE]
    /\ IF MetadataIsErr(cwd, filename[t])
       THEN /\ Return(t, filename[t])
            /\ UNCHANGED cwd
       ELSE /\ Retry(t)
            /\ cwd' = [cwd EXCEPT ![filename[t]] = Absent]
    /\ filename' = [filename EXCEPT ![t] = <<>>]
    /\ UNCHANGED <<op, length, range, value, drew>>

\* if fs::metadata(&filename).is_err() { return filename; }, else loop again.
\* The function does nothing between the answer of fs::metadata and the
\* return, so the query and the return (or the retry) are one step.
BadfileCheck(t) ==
    /\ pc[t] = "check"
    /\ queried' = [queried EXCEPT ![t] = TRUE]
    /\ IF MetadataIsErr(cwd, filename[t]) THEN Return(t, filename[t]) ELSE Retry(t)
    /\ filename' = [filename EXCEPT ![t] = <<>>]
    /\ UNCHANGED <<cwd, op, length, range, value, drew>>

(***************************************************************************)
(* Other processes working in the same directory                           *)
(***************************************************************************)
EnvCreate(name, kind) ==
    /\ cwd[name] = Absent
    /\ cwd' = [cwd EXCEPT ![name] = kind]
    /\ UNCHANGED callerVars

EnvRemove(name) ==
    /\ cwd[name] # Absent
    /\ cwd' = [cwd EXCEPT ![name] = Absent]
    /\ UNCHANGED callerVars

(***************************************************************************)
(* Specifications                                                          *)
(***************************************************************************)
Badfile(t) ==
    \/ \E len \in BadfileLengths : GenerateBadfile(t, len)
    \/ BadfileSample(t)
    \/ BadfileCheck(t)

Library(t) ==
    \/ Generate(t)
    \/ \E rg \in Ranges : GenerateRange(t, rg)
    \/ \E len \in 0..MaxLen : GenerateBytes(t, len)
    \/ \E len \in 0..MaxLen : GenerateAlphanumeric(t, len)
    \/ Badfile(t)

Environment ==
    \/ \E name \in Names, kind \in EntryKinds : EnvCreate(name, kind)
    \/ \E name \in Names : EnvRemove(name)

\* One caller making call after call of the five functions, while other
\* processes change the directory.
Next ==
    \/ Library("c1")
    \/ Environment

Spec == Init /\ [][Next]_vars

\* Two callers inside generate_badfile at the same time, while other
\* processes change the directory.
RaceNext ==
    \/ \E t \in Callers : Badfile(t)
    \/ Environment

RaceSpec == Init /\ [][RaceNext]_vars

\* One caller of generate_badfile, while other processes change the
\* directory.  The loop body always runs on (the function never blocks), and
\* the random source gives every name of the length again and again.
LiveNext ==
    \/ Badfile("c1")
    \/ Environment

LiveSpec ==
    /\ Init
    /\ [][LiveNext]_vars
    /\ WF_vars(BadfileCheck("c1"))
    /\ \A name \in Names : SF_vars(BadfileDraw("c1", name))

(***************************************************************************)
(* Properties                                                              *)
(***************************************************************************)
BadfileReturned(t) == op[t] = "generate_badfile" /\ pc[t] = "returned"

\* The step in which caller t's call of generate_badfile returns.
BadfileReturns(t) ==
    op[t] = "generate_badfile" /\ pc[t] = "check" /\ pc'[t] = "returned"

\* "A".."Z", "a".."z", "0".."9"
IsAlphanumeric(c) == c \in (65..90) \cup (97..122) \cup (48..57)

C2_ZeroLengthAbortsFirst ==
    \A t \in Callers :
        (op[t] = "generate_badfile" /\ length[t] = 0) =>
            /\ pc[t] = "aborted"
            /\ ~drew[t]
            /\ ~queried[t]
            /\ filename[t] = <<>>
            /\ buffer[t] = <<>>

C2_Witness ==
    /\ op["c1"] = "generate_badfile"
    /\ length["c1"] = 0
    /\ pc["c1"] = "aborted"

\* C3: a value generate_range returns lies in the range: start <= v < end
\* for start..end, start <= v <= end for start..=end.
C3_ValueInRange ==
    \A t \in Callers :
        (op[t] = "generate_range" /\ pc[t] = "returned") =>
            /\ range[t].start <= value[t]
            /\ range[t].kind = "exclusive" => value[t] < range[t].end
            /\ range[t].kind = "inclusive" => value[t] <= range[t].end

\* The largest value of an exclusive range of more than one value.
C3_Witness ==
    /\ op["c1"] = "generate_range"
    /\ pc["c1"] = "returned"
    /\ range["c1"].kind = "exclusive"
    /\ range["c1"].end - range["c1"].start >= 2
    /\ value["c1"] = range["c1"].end - 1

\* C4: generate_range aborts exactly when the range is empty (start >= end
\* for start..end, start > end for start..=end), it aborts before it draws,
\* and start..=start is not empty: the call returns start.
C4_AbortsIffEmpty ==
    \A t \in Callers :
        op[t] = "generate_range" =>
            /\ pc[t] \in {"returned", "aborted"}
            /\ pc[t] = "aborted" <=>
                  \/ range[t].kind = "exclusive" /\ range[t].start >= range[t].end
                  \/ range[t].kind = "inclusive" /\ range[t].start > range[t].end
            /\ pc[t] = "aborted" => ~drew[t]
            /\ (range[t].kind = "inclusive" /\ range[t].start = range[t].end) =>
                  pc[t] = "returned" /\ value[t] = range[t].start

\* start..=start with start > 0 returned start.
C4_Witness ==
    /\ op["c1"] = "generate_range"
    /\ range["c1"].kind = "inclusive"
    /\ range["c1"].start = range["c1"].end
    /\ range["c1"].start > 0
    /\ pc["c1"] = "returned"
    /\ value["c1"] = range["c1"].start

\* C5: generate_bytes(length) and generate_alphanumeric(length) return
\* exactly `length` elements and never abort, length 0 included.
C5_ExactLength ==
    \A t \in Callers :
        op[t] \in {"generate_bytes", "generate_alphanumeric"} =>
            /\ pc[t] = "returned"
            /\ Len(buffer[t]) = length[t]
            /\ length[t] = 0 => buffer[t] = <<>>

\* Two bytes that differ.
C5_Witness ==
    /\ op["c1"] = "generate_bytes"
    /\ pc["c1"] = "returned"
    /\ length["c1"] = 2
    /\ buffer["c1"][1] # buffer["c1"][2]

\* C6: every character generate_alphanumeric and generate_badfile return is
\* one of A-Z, a-z, 0-9, and a name generate_badfile returns has `length`
\* characters.
C6_OnlyAlphanumeric ==
    \A t \in Callers :
        (op[t] \in {"generate_alphanumeric", "generate_badfile"}
            /\ pc[t] = "returned") =>
            /\ \A i \in 1..Len(buffer[t]) : IsAlphanumeric(buffer[t][i])
            /\ op[t] = "generate_badfile" => Len(buffer[t]) = length[t]

\* A string that ends in "Z", the last letter of the upper case run.
C6_Witness ==
    /\ op["c1"] = "generate_alphanumeric"
    /\ pc["c1"] = "returned"
    /\ length["c1"] = 2
    /\ buffer["c1"][2] = 90

\* C7: no step of the library changes the directory.
C7_LibraryLeavesCwd ==
    [][callerVars' # callerVars => cwd' = cwd]_vars

\* A call returned after a collision: the entries it collided with are
\* still there and the name it returned is still absent.
C7_Witness ==
    /\ BadfileReturned("c1")
    /\ discarded["c1"]
    /\ ~EntryExists(cwd, buffer["c1"])
    /\ \E name \in Names : ~MetadataIsErr(cwd, name)

\* C8 as stated: in every directory, a call of generate_badfile with
\* length > 0 returns in the end.
C8_AlwaysReturns ==
    \A t \in Callers :
        (op[t] = "generate_badfile" /\ pc[t] = "sample") ~> (pc[t] = "returned")

\* C8, amended: a call of generate_badfile with length > 0 returns in the
\* end if fs::metadata keeps failing on some name of that length for as long
\* as the call runs.
C8_ReturnsWhenSomeNameStaysFree ==
    \A t \in Callers : \A name \in Names :
        ( /\ op[t] = "generate_badfile" /\ pc[t] = "sample"
          /\ name \in SampleIter(length[t])
          /\ [](MetadataIsErr(cwd, name)) )
            ~> (pc[t] = "returned")

\* A call returned after it had to retry.
C8_Witness ==
    /\ BadfileReturned("c1")
    /\ discarded["c1"]
    /\ \E name \in SampleIter(length["c1"]) : ~MetadataIsErr(cwd, name)

\* C9: a return does not reserve the name: every name fs::metadata failed on
\* before the return it still fails on after it, the returned one included.
C9_ReturnReservesNothing ==
    [][\A t \in Callers :
        BadfileReturns(t) =>
            \A name \in Names :
                MetadataIsErr(cwd, name) => MetadataIsErr(cwd', name)]_vars

\* Two calls held the same candidate at the same time, both returned it, and
\* another process has created the entry since.
C9_Witness ==
    /\ BadfileReturned("c1")
    /\ BadfileReturned("c2")
    /\ buffer["c1"] = buffer["c2"]
    /\ raced["c1"]
    /\ cwd[buffer["c1"]] = "file"

\* C10 as stated: the check returns the candidate exactly when the directory
\* holds no entry of that name, and discards it otherwise.
C10_ReturnedIffNoEntry ==
    [][\A t \in Callers :
        (pc[t] = "check" /\ pc'[t] # "check") =>
            (pc'[t] = "returned" <=> ~EntryExists(cwd, filename[t]))]_vars

====
